---- MODULE Spec2Model ----
(***************************************************************************)
(* Shared memory and proposal workflow of the AI Tech Consultant Agent.    *)
(*                                                                         *)
(* The store is SharedMemory (src/core/shared_memory.py) over one of two   *)
(* backends: the in-process MockMemory list, or the external Mem0 object.  *)
(* A record's content is a text rendering of its payload; the only thing   *)
(* the program ever asks of a content is whether it contains a query as a  *)
(* case-insensitive substring, and every query the program issues is one   *)
(* of the five type names.  A content is therefore modelled by the set of  *)
(* type names that occur in it.                                            *)
(***************************************************************************)
EXTENDS Integers, Sequences, FiniteSets, TLC

\* ---------------------------------------------------------------- bounds
MaxApiStores == 1
MaxRecords == 3
MaxMentions == 1
MaxRev == 1
MaxItems == 3
MaxStoreTexts == 2
MaxPipelineRecords == 6

MaxText == 5

\* ---------------------------------------------------------------- vocabulary
Types == {"tender_analysis", "solution_strategy", "visualization", "project_plan", "technical_proposal"}

DiagramTypes == <<"system_architecture", "infrastructure", "data_flow", "project_workflow", "sequence", "database_er">>

StrategyDiagrams == {"system_architecture", "infrastructure", "project_workflow"}

Backends == {"MockMemory", "Mem0"}


NoId == [type |-> "none", dt |-> "none", n |-> 0]

\* A payload dictionary on the heap.
NewPayload(shape, words, timeline) == [shape |-> shape, words |-> words, memory_id |-> NoId, timeline |-> timeline]

EmptyDict == NewPayload("empty", {}, -1)

None == [id |-> NoId, type |-> "none", words |-> {}, data |-> 0, diagram_type |-> "none"]

VARIABLES backend, memories, counter, heap, last, apiStores, mentions, issued, wf, tri, ses, job, wr, sq, pipe, sync, rx

vars == <<backend, memories, counter, heap, last, apiStores, mentions, issued, wf, tri, ses, job, wr, sq, pipe, sync, rx>>

\* The number of records up to which the stage functions are followed:
\* MaxRecords, and MaxPipelineRecords while the five stages run in order.
StoreBound == IF pipe.pc > 0 THEN MaxPipelineRecords ELSE MaxRecords

\* The variables of the callers of the store and of the stage functions,
\* which those functions neither read nor write.
aux == <<wf, tri, ses, job, wr, sq, pipe, sync, rx>>

\* The type names a caller-supplied text or payload may contain: the texts
\* supplied in one run mention at most MaxMentions type names in total.
InputMentions == {w \in SUBSET Types : mentions + Cardinality(w) <= MaxMentions}

\* ---------------------------------------------------------------- contents
\* Type names that occur in the rendering of an id, f"{type}_{n}".
IdWords(id) == IF id = NoId THEN {} ELSE {id.type}

\* Type names among the fixed keys of a payload: only the proposal has one,
\* "diagrams_and_visualizations".
ShapeWords(shape) == IF shape = "proposal" THEN {"visualization"} ELSE {}

\* Type names in json.dumps(payload).
PayloadWords(p) == p.words \cup ShapeWords(p.shape) \cup IdWords(p.memory_id)

\* Type names in the label that store_* puts before the payload:
\* "Tender Analysis: " has a space where the type name has an underscore;
\* "Visualization (" contains the type name.
PrefixWords(T) == IF T = "visualization" THEN {"visualization"} ELSE {}

\* ---------------------------------------------------------------- backend
\* A backend that keeps only the entry it was given last.
MockMemory_add_KeepingOnlyLast(mems, id, T, dt, cw, d) == <<[id |-> id, type |-> T, words |-> cw, data |-> d, diagram_type |-> dt]>>

\* A backend keyed by id: an entry added under an id already present
\* takes the place of the entry that had it.
MockMemory_add_KeyedById(mems, id, T, dt, cw, d) ==
    LET entry == [id |-> id, type |-> T, words |-> cw, data |-> d, diagram_type |-> dt] IN
    IF \E i \in 1..Len(mems) : mems[i].id = id
    THEN [i \in 1..Len(mems) |-> IF mems[i].id = id THEN entry ELSE mems[i]]
    ELSE Append(mems, entry)

MockMemory_add(mems, id, T, dt, cw, d) == Append(mems, [id |-> id, type |-> T, words |-> cw, data |-> d, diagram_type |-> dt])

MockMemory_search(mems, query) == SelectSeq(mems, LAMBDA m : query \in m.words)

Mem0_add(mems, id, T, dt, cw, d) == MockMemory_add(mems, id, T, dt, cw, d)

Mem0_search(mems, query) == MockMemory_search(mems, query)

\* self.memory.search(query, user_id="default_user"): MockMemory.search has
\* no user_id parameter, so the call raises TypeError on that backend; a
\* vector store that cannot be reached raises as well.
memory_search(mems, query) ==
    IF backend \in {"MockMemory", "Mem0Unreachable"}
    THEN [raised |-> TRUE, results |-> <<>>]
    ELSE [raised |-> FALSE, results |-> Mem0_search(mems, query)]

\* self.memory.add(memory_id, content, metadata=..., user_id="default_user")
memory_add(mems, id, T, dt, cw, d) ==
    IF backend \in {"MockMemory", "Mem0Unreachable"}
    THEN [raised |-> TRUE, mems |-> mems]
    ELSE [raised |-> FALSE, mems |-> Mem0_add(mems, id, T, dt, cw, d)]

\* ---------------------------------------------------------------- SharedMemory
\* f"{type}_{n}", or f"visualization_{diagram_type}_{n}" for a diagram.
memory_id(T, dt, n) == [type |-> T, dt |-> dt, n |-> n]

\* The body shared by the five store_* methods: the id is computed from an
\* uncaught search, then the entry is added.
store(mems, T, dt, cw, d) ==
    LET s == memory_search(mems, T) IN
    IF s.raised
    THEN [raised |-> TRUE, mems |-> mems, id |-> NoId]
    ELSE LET id == memory_id(T, dt, Len(s.results))
             a == memory_add(mems, id, T, dt, cw, d)
         IN  [raised |-> a.raised, mems |-> a.mems, id |-> IF a.raised THEN NoId ELSE id]

store_tender_analysis(mems, p, d) == store(mems, "tender_analysis", "none", PrefixWords("tender_analysis") \cup PayloadWords(p), d)

store_solution_strategy(mems, p, d) == store(mems, "solution_strategy", "none", PrefixWords("solution_strategy") \cup PayloadWords(p), d)

store_visualization(mems, dt, w) == store(mems, "visualization", dt, PrefixWords("visualization") \cup w, 0)

store_project_plan(mems, p, d) == store(mems, "project_plan", "none", PrefixWords("project_plan") \cup PayloadWords(p), d)

store_technical_proposal(mems, p, d) == store(mems, "technical_proposal", "none", PrefixWords("technical_proposal") \cup PayloadWords(p), d)

search_memories(mems, query, memory_type) ==
    LET s == memory_search(mems, query) IN
    IF s.raised THEN <<>>
    ELSE IF memory_type # "none"
         THEN SelectSeq(s.results, LAMBDA m : m.type = memory_type)
         ELSE s.results

\* The value a caller would be left with if a lookup let the exception of
\* the backend through.
Raised == [None EXCEPT !.type = "raised"]

\* A lookup without the except clause.
get_latest_memory_Reraising(mems, memory_type) ==
    LET s == memory_search(mems, memory_type) IN
    IF s.raised THEN Raised ELSE IF s.results = <<>> THEN None ELSE s.results[Len(s.results)]

get_latest_memory(mems, memory_type) ==
    LET s == memory_search(mems, memory_type) IN
    IF s.raised \/ s.results = <<>> THEN None ELSE s.results[Len(s.results)]

get_all_memories(mems, memory_type) ==
    LET s == memory_search(mems, memory_type) IN
    IF s.raised THEN <<>> ELSE s.results

\* ---------------------------------------------------------------- results
\* entries holds, for the diagram batch, how each of its diagrams ended.
Result(op, out, detail, ids) == [op |-> op, out |-> out, detail |-> detail, ids |-> ids, preLen |-> Len(memories), entries |-> <<>>, arg |-> NoId, used |-> NoId]

\* ---------------------------------------------------------------- stage agents
\* The type names a derived text may carry over from the payloads it was
\* computed from: some of those that occur in a payload of the store.
MentionSets == SUBSET (UNION {heap[i].words : i \in 1..Len(heap)})

\* metadata.get("data", {}) of a fetched record: the payload on the heap, or
\* a fresh empty dictionary when the metadata has no "data" key.
DataOf(hp, m) == IF m.data = 0 THEN EmptyDict ELSE hp[m.data]

\* The effect of a stage function that builds obj, stores it through st and
\* then writes the returned id into the dictionary it has just stored.
\* A stage that was passed the id given and read the record with id used.
StageStoreOn(op, arg, r, obj, given, used) ==
    /\ memories' = r.mems
    /\ counter' = IF r.raised THEN counter ELSE counter + 1
    /\ heap' = IF r.raised THEN heap ELSE Append(heap, [obj EXCEPT !.memory_id = r.id])
    /\ last' = [(IF r.raised THEN Result(op, "raised", "TypeError", <<>>) ELSE Result(op, "ok", arg, <<r.id>>))
                   EXCEPT !.arg = given, !.used = used]
    /\ issued' = IF r.raised THEN issued ELSE Append(issued, r.id)
    /\ UNCHANGED <<backend, apiStores, mentions>>

StageStore(op, arg, r, obj) == StageStoreOn(op, arg, r, obj, NoId, NoId)

\* A return that takes the newest record out of the store on its way.
NoEffect_ConsumingLatest(op, out, detail) ==
    /\ last' = Result(op, out, detail, <<>>)
    /\ issued' = issued
    /\ memories' = SubSeq(memories, 1, Len(memories) - 1)
    /\ UNCHANGED <<backend, counter, heap, apiStores, mentions>>

\* A return from a function that has made no store call and assigned to
\* nothing it fetched.
NoEffect(op, out, detail) ==
    /\ last' = Result(op, out, detail, <<>>)
    /\ issued' = issued
    /\ UNCHANGED <<backend, memories, counter, heap, apiStores, mentions>>

\* The same return, of a function that was passed the id given and read
\* the record with id used.
NoEffectOn(op, out, detail, given, used) ==
    /\ last' = [Result(op, out, detail, <<>>) EXCEPT !.arg = given, !.used = used]
    /\ issued' = issued
    /\ UNCHANGED <<backend, memories, counter, heap, apiStores, mentions>>

\* extract_text_from_file returns a text in every case: the file's text, or
\* the message describing why it could not be read.
InputKinds == {"none", "text", "file_error"}

analyze_tender_document ==
    /\ Len(memories) < StoreBound
    /\ \E kind \in InputKinds : \E w \in InputMentions :
        IF kind = "none"
        THEN w = {} /\ NoEffect("analyze_tender_document", "error", "Either file_path or text_content must be provided")
        ELSE LET obj == NewPayload("analysis", w, -1)
                 r == store_tender_analysis(memories, obj, Len(heap) + 1) IN
             /\ memories' = r.mems
             /\ counter' = IF r.raised THEN counter ELSE counter + 1
             /\ heap' = IF r.raised THEN heap ELSE Append(heap, [obj EXCEPT !.memory_id = r.id])
             /\ last' = IF r.raised THEN Result("analyze_tender_document", "raised", "TypeError", <<>>) ELSE Result("analyze_tender_document", "ok", kind, <<r.id>>)
             /\ issued' = IF r.raised THEN issued ELSE Append(issued, r.id)
             /\ mentions' = mentions + Cardinality(w)
             /\ UNCHANGED <<backend, apiStores>>

\* _estimate_solution_costs sums cost.get("amount", cost) over four cost
\* entries of which only "contingency" has an amount: the sum adds a
\* dictionary to an integer.
CostEntries == <<[name |-> "development", hasAmount |-> FALSE], [name |-> "infrastructure", hasAmount |-> FALSE], [name |-> "third_party", hasAmount |-> FALSE], [name |-> "contingency", hasAmount |-> TRUE]>>

estimate_solution_costs == IF \E i \in 1..Len(CostEntries) : ~CostEntries[i].hasAmount THEN "TypeError" ELSE "ok"

\* The record design_solution_strategy reads: both branches of the test
\* on tender_analysis_id make the same lookup.
analysis_for(mems, tender_analysis_id) ==
    IF tender_analysis_id # NoId
    THEN get_latest_memory(mems, "tender_analysis")
    ELSE get_latest_memory(mems, "tender_analysis")

\* The ids a caller can pass: none, or the id of a record of the store.
AnalysisIds == {NoId} \cup {memories[i].id : i \in 1..Len(memories)}

\* last.arg is the id the caller passed and last.used the id of the record
\* the function read.
design_solution_strategy ==
    /\ Len(memories) < StoreBound
    /\ \E tender_analysis_id \in AnalysisIds : \E w \in MentionSets :
        LET tender_analysis == analysis_for(memories, tender_analysis_id)
            obj == NewPayload("strategy", w, -1)
        IN  IF tender_analysis = None
            THEN w = {} /\ NoEffectOn("design_solution_strategy", "error", "No tender analysis found in memory", tender_analysis_id, NoId)
            ELSE IF estimate_solution_costs # "ok"
                 THEN w = {} /\ NoEffectOn("design_solution_strategy", "raised", estimate_solution_costs, tender_analysis_id, tender_analysis.id)
                 ELSE /\ w \subseteq DataOf(heap, tender_analysis).words
                      /\ StageStoreOn("design_solution_strategy", "none", store_solution_strategy(memories, obj, Len(heap) + 1), obj, tender_analysis_id, tender_analysis.id)

\* One create_*_diagram function on the store mems: three of the six read
\* the solution strategy first, the other three do not.  w is the set of
\* type names the strategy data carries into the diagram text.
create_diagram(mems, hp, dt, w) ==
    LET solution_strategy == get_latest_memory(mems, "solution_strategy") IN
    IF dt \in StrategyDiagrams /\ solution_strategy = None
    THEN [out |-> "error", mems |-> mems, id |-> NoId, valid |-> w = {}]
    ELSE LET r == store_visualization(mems, dt, w) IN
         [out |-> IF r.raised THEN "raised" ELSE "ok", mems |-> r.mems, id |-> r.id,
          valid |-> IF dt \in StrategyDiagrams THEN w \subseteq DataOf(hp, solution_strategy).words ELSE w = {}]

CreateDiagram(op, dt) ==
    /\ Len(memories) < StoreBound
    /\ \E w \in MentionSets :
        LET r == create_diagram(memories, heap, dt, w) IN
        /\ r.valid
        /\ memories' = r.mems
        /\ counter' = counter + (Len(r.mems) - Len(memories))
        /\ last' = Result(op, r.out, IF r.out = "error" THEN "No solution strategy found in memory" ELSE IF r.out = "raised" THEN "TypeError" ELSE dt, IF r.out = "ok" THEN <<r.id>> ELSE <<>>)
        /\ issued' = IF r.out = "ok" THEN Append(issued, r.id) ELSE issued
        /\ UNCHANGED <<backend, heap, apiStores, mentions>>

create_system_architecture_diagram == CreateDiagram("create_system_architecture_diagram", "system_architecture")

create_infrastructure_diagram == CreateDiagram("create_infrastructure_diagram", "infrastructure")

create_data_flow_diagram == CreateDiagram("create_data_flow_diagram", "data_flow")

create_project_workflow_diagram == CreateDiagram("create_project_workflow_diagram", "project_workflow")

create_sequence_diagram == CreateDiagram("create_sequence_diagram", "sequence")

create_database_er_diagram == CreateDiagram("create_database_er_diagram", "database_er")

\* The six diagram functions in sequence, each inside its own try/except;
\* an entry is NoId when its function returned or raised an error.
RECURSIVE all_diagrams(_, _, _, _, _)
all_diagrams(i, mems, hp, f, entries) ==
    IF i > Len(DiagramTypes)
    THEN [valid |-> TRUE, mems |-> mems, entries |-> entries]
    ELSE LET dt == DiagramTypes[i]
             r == create_diagram(mems, hp, dt, IF dt \in StrategyDiagrams THEN f[dt] ELSE {}) IN
         IF ~r.valid
         THEN [valid |-> FALSE, mems |-> mems, entries |-> entries]
         ELSE all_diagrams(i + 1, r.mems, hp, f, Append(entries, [out |-> r.out, id |-> r.id]))

\* A count that takes every diagram function that returned, whatever it
\* returned, for a success.
batch_summary_CountingReturns(entries) ==
    [total_diagrams |-> Len(entries),
     successful_diagrams |-> Cardinality({i \in 1..Len(entries) : entries[i].out # "raised"})]

\* The counts create_all_diagrams returns: a diagram is successful when its
\* entry has no "error" key, whether the error was raised or returned.
batch_summary(entries) ==
    [total_diagrams |-> Len(entries),
     successful_diagrams |-> Cardinality({i \in 1..Len(entries) : entries[i].out = "ok"})]

create_all_diagrams ==
    /\ Len(memories) < StoreBound
    /\ \E f \in [StrategyDiagrams -> MentionSets] :
        LET r == all_diagrams(1, memories, heap, f, <<>>) IN
        /\ r.valid
        /\ memories' = r.mems
        /\ counter' = counter + (Len(r.mems) - Len(memories))
        /\ last' = [Result("create_all_diagrams", "ok", batch_summary(r.entries), [i \in 1..Len(r.entries) |-> r.entries[i].id])
                       EXCEPT !.entries = [i \in 1..Len(r.entries) |-> r.entries[i].out]]
        /\ issued' = issued \o SelectSeq([i \in 1..Len(r.entries) |-> r.entries[i].id], LAMBDA id : id # NoId)
        /\ UNCHANGED <<backend, heap, apiStores, mentions>>

\* estimate_project_costs divides by the total cost, which is zero when the
\* fetched data has no implementation phases, as any data not built as a
\* solution strategy.
create_comprehensive_project_plan ==
    /\ Len(memories) < StoreBound
    /\ \E w \in MentionSets :
        LET solution_strategy == get_latest_memory(memories, "solution_strategy")
            strategy_data == DataOf(heap, solution_strategy)
            obj == NewPayload("plan", w, 0)
        IN  IF solution_strategy = None
            THEN w = {} /\ NoEffect("create_comprehensive_project_plan", "error", "No solution strategy found in memory")
            ELSE IF strategy_data.shape # "strategy"
                 THEN w = {} /\ NoEffect("create_comprehensive_project_plan", "raised", "ZeroDivisionError")
                 ELSE /\ w \subseteq strategy_data.words
                      /\ StageStore("create_comprehensive_project_plan", "none", store_project_plan(memories, obj, Len(heap) + 1), obj)

\* _format_visualizations keys its entries by diagram_type ("unknown" when
\* the metadata has none), so the last fetched record of a key survives; an
\* entry copies the record's id and, for a visualization, its texts.
VizKey(m) == IF m.type = "visualization" THEN m.diagram_type ELSE "unknown"

format_visualizations(visualizations) ==
    UNION {IdWords(visualizations[i].id) \cup (IF visualizations[i].type = "visualization" THEN visualizations[i].words ELSE {}) :
           i \in {j \in 1..Len(visualizations) : \A k \in (j + 1)..Len(visualizations) : VizKey(visualizations[k]) # VizKey(visualizations[j])}}

\* _format_project_timeline, _format_cost_breakdown, _format_risk_assessment
\* and _format_quality_assurance return {"error": "No project plan data
\* available"} for an empty plan dictionary and the plan's sections otherwise.
plan_sections(plan_data) == IF plan_data = EmptyDict THEN "No project plan data available" ELSE "plan"

create_comprehensive_proposal ==
    /\ Len(memories) < StoreBound
    /\ \E w \in MentionSets :
        LET tender_analysis == get_latest_memory(memories, "tender_analysis")
            solution_strategy == get_latest_memory(memories, "solution_strategy")
            project_plan == get_latest_memory(memories, "project_plan")
            visualizations == get_all_memories(memories, "visualization")
            plan_data == IF project_plan = None THEN EmptyDict ELSE DataOf(heap, project_plan)
            plan_words == plan_data.words
            obj == NewPayload("proposal", w \cup format_visualizations(visualizations), -1)
        IN  IF tender_analysis = None \/ solution_strategy = None
            THEN w = {} /\ NoEffect("create_comprehensive_proposal", "error", "Missing required analysis or strategy data")
            ELSE /\ w \subseteq (DataOf(heap, tender_analysis).words \cup DataOf(heap, solution_strategy).words \cup plan_words)
                 /\ StageStore("create_comprehensive_proposal", plan_sections(plan_data), store_technical_proposal(memories, obj, Len(heap) + 1), obj)

\* update_project_timeline rewrites the timeline inside the dictionary it
\* fetched and stores that same dictionary as a new project_plan record.
\* A phase update can match only the phases of a plan; a dictionary without
\* a "timeline" key gets one.
update_project_timeline ==
    /\ Len(memories) < StoreBound
    /\ \E match \in BOOLEAN :
        LET project_plan == get_latest_memory(memories, "project_plan")
            plan_data == DataOf(heap, project_plan)
            changed == match /\ plan_data.shape = "plan" /\ plan_data.timeline >= 0 /\ plan_data.timeline < MaxRev
            updated == [plan_data EXCEPT !.timeline = IF plan_data.timeline < 0 THEN 0 ELSE IF changed THEN plan_data.timeline + 1 ELSE plan_data.timeline]
            d == IF project_plan.data = 0 THEN Len(heap) + 1 ELSE project_plan.data
            r == store_project_plan(memories, updated, d)
        IN  IF project_plan = None
            THEN ~match /\ NoEffect("update_project_timeline", "error", "No project plan found in memory")
            ELSE /\ match => changed
                 /\ memories' = r.mems
                 /\ counter' = IF r.raised THEN counter ELSE counter + 1
                 /\ heap' = IF project_plan.data = 0
                            THEN (IF r.raised THEN heap ELSE Append(heap, updated))
                            ELSE [heap EXCEPT ![d] = updated]
                 /\ last' = IF r.raised THEN Result("update_project_timeline", "raised", "TypeError", <<>>) ELSE Result("update_project_timeline", "ok", "updated", <<r.id>>)
                 /\ issued' = IF r.raised THEN issued ELSE Append(issued, r.id)
                 /\ UNCHANGED <<backend, apiStores, mentions>>

\* clear_memories filters the list of a MockMemory and does nothing on Mem0.
ClearTargets == {"none", "tender_analysis", "visualization"}

clear_memories ==
    /\ \E memory_type \in ClearTargets :
        /\ memories' = IF backend = "MockMemory"
                       THEN (IF memory_type # "none" THEN SelectSeq(memories, LAMBDA m : m.type # memory_type) ELSE <<>>)
                       ELSE memories
        /\ last' = Result("clear_memories", "ok", memory_type, <<>>)
        /\ issued' = issued
    /\ UNCHANGED <<backend, counter, heap, apiStores, mentions>>

\* ---------------------------------------------------------------- store calls
\* A caller invokes one of the store tools with a payload of its own.
ApiStore(op, T, r, obj, w) ==
    /\ memories' = r.mems
    /\ counter' = IF r.raised THEN counter ELSE counter + 1
    /\ heap' = IF r.raised \/ T = "visualization" THEN heap ELSE Append(heap, obj)
    /\ last' = IF r.raised THEN Result(op, "raised", "TypeError", <<>>) ELSE Result(op, "ok", "stored", <<r.id>>)
    /\ issued' = IF r.raised THEN issued ELSE Append(issued, r.id)
    /\ apiStores' = apiStores + 1
    /\ mentions' = mentions + Cardinality(w)
    /\ UNCHANGED backend

CallStoreTenderAnalysis ==
    /\ apiStores < MaxApiStores
    /\ Len(memories) < StoreBound
    /\ \E w \in InputMentions :
        LET obj == NewPayload("analysis", w, -1) IN
        ApiStore("store_tender_analysis", "tender_analysis", store_tender_analysis(memories, obj, Len(heap) + 1), obj, w)

CallStoreSolutionStrategy ==
    /\ apiStores < MaxApiStores
    /\ Len(memories) < StoreBound
    /\ \E w \in InputMentions :
        LET obj == NewPayload("strategy", w, -1) IN
        ApiStore("store_solution_strategy", "solution_strategy", store_solution_strategy(memories, obj, Len(heap) + 1), obj, w)

\* The diagram types a caller passes to store_visualization directly.
ApiDiagramTypes == {"data_flow", "custom"}

CallStoreVisualization ==
    /\ apiStores < MaxApiStores
    /\ Len(memories) < StoreBound
    /\ \E w \in InputMentions : \E dt \in ApiDiagramTypes :
        ApiStore("store_visualization", "visualization", store_visualization(memories, dt, w), EmptyDict, w)

CallStoreProjectPlan ==
    /\ apiStores < MaxApiStores
    /\ Len(memories) < StoreBound
    /\ \E w \in InputMentions :
        LET obj == NewPayload("plan", w, 0) IN
        ApiStore("store_project_plan", "project_plan", store_project_plan(memories, obj, Len(heap) + 1), obj, w)

CallStoreTechnicalProposal ==
    /\ apiStores < MaxApiStores
    /\ Len(memories) < StoreBound
    /\ \E w \in InputMentions :
        LET obj == NewPayload("proposal", w, -1) IN
        ApiStore("store_technical_proposal", "technical_proposal", store_technical_proposal(memories, obj, Len(heap) + 1), obj, w)

\* ---------------------------------------------------------------- orchestrator status
\* The memory types in the order check_workflow_status inspects them.
StageOrder == <<"tender_analysis", "solution_strategy", "visualization", "project_plan", "technical_proposal">>

\* The step name check_workflow_status reports for a memory type.
StepName(T) == IF T = "visualization" THEN "visualizations" ELSE IF T = "technical_proposal" THEN "final_proposal" ELSE T

get_context_summary(mems) ==
    LET latest == SelectSeq(StageOrder, LAMBDA T : IF T = "visualization" THEN get_all_memories(mems, T) # <<>> ELSE get_latest_memory(mems, T) # None)
    IN  IF latest = <<>> THEN <<"No information stored yet.">> ELSE latest

check_workflow_status(mems) ==
    LET done == SelectSeq(StageOrder, LAMBDA T : get_latest_memory(mems, T) # None)
        todo == SelectSeq(StageOrder, LAMBDA T : get_latest_memory(mems, T) = None)
        completed_steps == [i \in 1..Len(done) |-> StepName(done[i])]
        missing_steps == [i \in 1..Len(todo) |-> StepName(todo[i])]
    IN  [progress_percentage |-> (Len(completed_steps) * 100) \div 5,
         completed_steps |-> completed_steps,
         missing_steps |-> missing_steps,
         context_summary |-> get_context_summary(mems),
         next_recommended_step |-> IF missing_steps # <<>> THEN missing_steps[1] ELSE "complete"]

\* ---------------------------------------------------------------- properties
\* What the store's interface describes, in terms of the type each record was
\* stored under (its metadata type).
RecordsOfType(mems, T) == SelectSeq(mems, LAMBDA m : m.type = T)

\* The records that were in the store before the last operation ran.
Before == SubSeq(memories, 1, last.preLen)

\* The records the last operation added.
Added == SubSeq(memories, last.preLen + 1, Len(memories))

Range(s) == {s[i] : i \in 1..Len(s)}

\* C1: for every type T, get_latest_memory(T) is the most recently stored
\* record whose type is T, and is None exactly when no record of type T has
\* been stored.
C1_LatestIsMostRecentOfType ==
    \A T \in Types :
        LET ofT == RecordsOfType(memories, T) IN
        get_latest_memory(memories, T) = IF ofT = <<>> THEN None ELSE ofT[Len(ofT)]

\* C2: a stage function writes a record only when its prerequisite was
\* there: a diagram function or the diagram batch adds a visualization only
\* if a solution_strategy record was in the store when it ran, and likewise
\* for the strategy, the plan and the proposal.
StagePrerequisites(op) ==
    IF op = "design_solution_strategy" THEN {"tender_analysis"}
    ELSE IF op = "create_comprehensive_proposal" THEN {"tender_analysis", "solution_strategy"}
    ELSE IF op \in {"create_system_architecture_diagram", "create_infrastructure_diagram", "create_data_flow_diagram",
                    "create_project_workflow_diagram", "create_sequence_diagram", "create_database_er_diagram",
                    "create_all_diagrams", "create_comprehensive_project_plan"} THEN {"solution_strategy"}
    ELSE {}

C2_StageWritesOnlyWithPrerequisite ==
    Added # <<>> => \A T \in StagePrerequisites(last.op) : RecordsOfType(Before, T) # <<>>

\* C3: design_solution_strategy with no tender_analysis record in the store
\* returns the missing-prerequisite error and writes nothing; with exactly
\* one tender_analysis record it succeeds and writes exactly one
\* solution_strategy record.
C3_StrategyNeedsAnalysis ==
    last.op = "design_solution_strategy" =>
        LET n == Len(RecordsOfType(Before, "tender_analysis")) IN
        /\ n = 0 => last.out = "error" /\ Added = <<>>
        /\ n = 1 => last.out = "ok" /\ Len(Added) = 1 /\ Added[1].type = "solution_strategy"

\* C4: check_workflow_status reports as completed exactly the stages that
\* have at least one record of their type, as missing exactly the other
\* stages, and as progress 100 * |completed| / 5.
StagesWithRecord == {T \in Types : RecordsOfType(memories, T) # <<>>}

C4_StatusMatchesRecords ==
    LET status == check_workflow_status(memories) IN
    /\ Range(status.completed_steps) = {StepName(T) : T \in StagesWithRecord}
    /\ Range(status.missing_steps) = {StepName(T) : T \in Types \ StagesWithRecord}
    /\ status.progress_percentage = (100 * Cardinality(StagesWithRecord)) \div 5

\* C5: next_recommended_step is the first stage, in the canonical order,
\* that has no record of its type, and is "complete" exactly when all five
\* stages have one.
C5_NextStepIsFirstStageWithoutRecord ==
    LET status == check_workflow_status(memories)
        without == SelectSeq(StageOrder, LAMBDA T : T \notin StagesWithRecord)
    IN  /\ status.next_recommended_step = IF without = <<>> THEN "complete" ELSE StepName(without[1])
        /\ status.next_recommended_step = "complete" <=> StagesWithRecord = Types

\* C6: the progress percentage reported by check_workflow_status never
\* decreases from one operation to the next.
C6_ProgressNeverDecreases ==
    [][check_workflow_status(memories').progress_percentage >= check_workflow_status(memories).progress_percentage]_vars

\* C6 witness: a stage function has just succeeded and the progress reported
\* after it is higher than the progress reported before it.
C6_Witness_ProgressRose ==
    /\ last.op \in {"analyze_tender_document", "create_all_diagrams", "create_comprehensive_project_plan", "create_comprehensive_proposal"}
    /\ last.out = "ok"
    /\ Added # <<>>
    /\ check_workflow_status(memories).progress_percentage > check_workflow_status(Before).progress_percentage

\* C7: a store call returns the id "{type}_{n}" where n is the number of
\* records of that type already in the store, and no two records of the
\* store share an id.
StoreCalls == {"store_tender_analysis", "store_solution_strategy", "store_visualization", "store_project_plan", "store_technical_proposal"}

C7_IdCountsRecordsOfType ==
    /\ (last.op \in StoreCalls /\ Added # <<>>) =>
           last.ids = <<[type |-> Added[1].type, dt |-> "none", n |-> Len(RecordsOfType(Before, Added[1].type))]>>
    /\ \A i, j \in 1..Len(memories) : i # j => memories[i].id # memories[j].id

\* C8: an id returned by a store of some type differs from every id
\* returned earlier by a store of that type.
C8_IssuedIdsNeverRepeat ==
    \A i, j \in 1..Len(issued) : (i < j /\ issued[i].type = issued[j].type) => issued[i] # issued[j]

\* C9: for every type T, get_all_memories(T) is exactly the records stored
\* with type T, in the order they were stored.
C9_AllOfTypeInStoreOrder ==
    \A T \in Types : get_all_memories(memories, T) = RecordsOfType(memories, T)

\* C10: no operation changes a record that is in the store: its id, its
\* content and the payload in its metadata are after every operation what
\* they were before it.
C10_RecordsNeverMutated ==
    [][\A i \in 1..Len(memories) :
           /\ i <= Len(memories')
           /\ memories'[i] = memories[i]
           /\ DataOf(heap', memories'[i]) = DataOf(heap, memories[i])]_vars

\* C11: a successful single-output stage has one effect on the store: it
\* appends one record of its own type and leaves every record that was
\* there, with its payload, as it was; two successful calls therefore leave
\* two records of the stage's type.
StageType(op) ==
    IF op = "analyze_tender_document" THEN "tender_analysis"
    ELSE IF op = "design_solution_strategy" THEN "solution_strategy"
    ELSE IF op = "create_comprehensive_project_plan" THEN "project_plan"
    ELSE IF op = "create_comprehensive_proposal" THEN "technical_proposal"
    ELSE "none"

C11_StageAppendsOneRecord ==
    [][(StageType(last'.op) # "none" /\ last'.out = "ok") =>
           /\ Len(memories') = Len(memories) + 1
           /\ memories'[Len(memories')].type = StageType(last'.op)
           /\ \A i \in 1..Len(memories) :
                  memories'[i] = memories[i] /\ DataOf(heap', memories'[i]) = DataOf(heap, memories[i])]_vars

\* C11 witness: the planner has succeeded a second time and the store holds
\* two project_plan records, one from before the call and the one it added.
C11_Witness_SecondPlanIsSecondRecord ==
    /\ last.op = "create_comprehensive_project_plan"
    /\ last.out = "ok"
    /\ Len(RecordsOfType(Before, "project_plan")) = 1
    /\ Len(RecordsOfType(memories, "project_plan")) = 2

\* C12: on a store that holds a tender_analysis and a solution_strategy
\* record, a call of the project planner leaves the answer of
\* get_latest_memory("solution_strategy"), payload included, as it was
\* before the call; so does a second call after it.
C12_PlannerKeepsLatestStrategy ==
    [][(/\ last'.op = "create_comprehensive_project_plan"
        /\ RecordsOfType(memories, "tender_analysis") # <<>>
        /\ RecordsOfType(memories, "solution_strategy") # <<>>) =>
           /\ get_latest_memory(memories', "solution_strategy") = get_latest_memory(memories, "solution_strategy")
           /\ DataOf(heap', get_latest_memory(memories', "solution_strategy")) = DataOf(heap, get_latest_memory(memories, "solution_strategy"))]_vars

\* C13: create_comprehensive_proposal returns the missing-prerequisite
\* error and stores nothing when the store has no tender_analysis or no
\* solution_strategy record; when it has both it stores exactly one
\* technical_proposal, and when there is no project_plan record the
\* plan-derived sections are the no-data placeholders.
C13_WriterPrerequisitesAndPlaceholders ==
    last.op = "create_comprehensive_proposal" =>
        LET has(T) == RecordsOfType(Before, T) # <<>> IN
        IF has("tender_analysis") /\ has("solution_strategy")
        THEN /\ last.out = "ok"
             /\ Len(Added) = 1
             /\ Added[1].type = "technical_proposal"
             /\ ~has("project_plan") => last.detail = "No project plan data available"
        ELSE last.out = "error" /\ Added = <<>>

\* ---------------------------------------------------------------- triage
\* Texts are sequences of characters, so that lower() and the substring test
\* of identify_missing_information are computed as the code computes them.
UpperCase == <<"A", "B", "C", "D", "E", "F", "G", "H", "I", "J", "K", "L", "M", "N", "O", "P", "Q", "R", "S", "T", "U", "V", "W", "X", "Y", "Z">>

LowerCase == <<"a", "b", "c", "d", "e", "f", "g", "h", "i", "j", "k", "l", "m", "n", "o", "p", "q", "r", "s", "t", "u", "v", "w", "x", "y", "z">>

lower(text) ==
    [i \in 1..Len(text) |->
        IF \E j \in 1..Len(UpperCase) : UpperCase[j] = text[i]
        THEN LowerCase[CHOOSE j \in 1..Len(UpperCase) : UpperCase[j] = text[i]]
        ELSE text[i]]

\* keyword in text
Contains(text, keyword) == \E i \in 1..(Len(text) - Len(keyword) + 1) : SubSeq(text, i, i + Len(keyword) - 1) = keyword

priority_keywords ==
    [high |-> <<<<"b", "u", "d", "g", "e", "t">>,
               <<"c", "o", "s", "t">>,
               <<"t", "i", "m", "e", "l", "i", "n", "e">>,
               <<"d", "e", "a", "d", "l", "i", "n", "e">>,
               <<"r", "e", "q", "u", "i", "r", "e", "m", "e", "n", "t", "s">>,
               <<"s", "c", "o", "p", "e">>>>,
     medium |-> <<<<"t", "e", "c", "h", "n", "i", "c", "a", "l">>,
                 <<"i", "n", "t", "e", "g", "r", "a", "t", "i", "o", "n">>,
                 <<"s", "e", "c", "u", "r", "i", "t", "y">>,
                 <<"c", "o", "m", "p", "l", "i", "a", "n", "c", "e">>>>,
     low |-> <<<<"b", "a", "c", "k", "g", "r", "o", "u", "n", "d">>,
              <<"s", "t", "a", "k", "e", "h", "o", "l", "d", "e", "r", "s">>,
              <<"s", "u", "c", "c", "e", "s", "s", "_", "c", "r", "i", "t", "e", "r", "i", "a">>>>]

any_keyword(item_lower, keywords) == \E k \in 1..Len(keywords) : Contains(item_lower, keywords[k])

\* A loop that tests the medium keywords before the high ones.
classify_MediumFirst(item) ==
    LET item_lower == lower(item) IN
    IF any_keyword(item_lower, priority_keywords.medium) THEN "medium"
    ELSE IF any_keyword(item_lower, priority_keywords.high) THEN "high"
    ELSE "low"

\* The bucket the loop of identify_missing_information puts an item in.
classify(item) ==
    LET item_lower == lower(item) IN
    IF any_keyword(item_lower, priority_keywords.high) THEN "high"
    ELSE IF any_keyword(item_lower, priority_keywords.medium) THEN "medium"
    ELSE "low"

\* A line of the recommendations: a header, the closing sentence, or "- item".
Line(kind, item) == [kind |-> kind, item |-> item]

Bullets(items) == [i \in 1..Len(items) |-> Line("bullet", items[i])]

\* Recommendations without the closing sentence for the case of nothing to ask.
generate_clarification_recommendations_WithoutClosing(high_priority, medium_priority) ==
    (IF high_priority # <<>> THEN <<Line("Please provide the following critical information:", <<>>)>> \o Bullets(high_priority) ELSE <<>>)
    \o (IF medium_priority # <<>> THEN <<Line("The following information would be helpful to refine the solution:", <<>>)>> \o Bullets(medium_priority) ELSE <<>>)

generate_clarification_recommendations(high_priority, medium_priority) ==
    (IF high_priority # <<>> THEN <<Line("Please provide the following critical information:", <<>>)>> \o Bullets(high_priority) ELSE <<>>)
    \o (IF medium_priority # <<>> THEN <<Line("The following information would be helpful to refine the solution:", <<>>)>> \o Bullets(medium_priority) ELSE <<>>)
    \o (IF high_priority = <<>> /\ medium_priority = <<>> THEN <<Line("All critical information has been provided. The proposal can proceed.", <<>>)>> ELSE <<>>)

\* The three lists after the loop over missing_info, each item appended to
\* the list of its bucket.
\* Lists built by inserting each item at the front.
bucket_NewestFirst(missing_info, priority) ==
    LET kept == SelectSeq(missing_info, LAMBDA item : classify(item) = priority) IN
    [i \in 1..Len(kept) |-> kept[Len(kept) + 1 - i]]

bucket(missing_info, priority) == SelectSeq(missing_info, LAMBDA item : classify(item) = priority)

triage(missing_info) ==
    LET high_priority == bucket(missing_info, "high")
        medium_priority == bucket(missing_info, "medium")
        low_priority == bucket(missing_info, "low")
    IN  [error |-> FALSE,
         total_missing_items |-> Len(missing_info),
         high_priority |-> high_priority,
         medium_priority |-> medium_priority,
         low_priority |-> low_priority,
         recommendations |-> generate_clarification_recommendations(high_priority, medium_priority)]

ItemBudget == <<"M", "i", "s", "s", "i", "n", "g", " ", "b", "u", "d", "g", "e", "t", " ", "i", "n", "f", "o", "r", "m", "a", "t", "i", "o", "n">>

ItemSecurityRequirements == <<"M", "i", "s", "s", "i", "n", "g", " ", "s", "e", "c", "u", "r", "i", "t", "y", " ", "r", "e", "q", "u", "i", "r", "e", "m", "e", "n", "t", "s", " ", "i", "n", "f", "o", "r", "m", "a", "t", "i", "o", "n">>

ItemBackground == <<"M", "i", "s", "s", "i", "n", "g", " ", "b", "a", "c", "k", "g", "r", "o", "u", "n", "d", " ", "i", "n", "f", "o", "r", "m", "a", "t", "i", "o", "n">>

ItemEmpty == <<>>

ItemTechnical == <<"M", "i", "s", "s", "i", "n", "g", " ", "t", "e", "c", "h", "n", "i", "c", "a", "l", " ", "s", "p", "e", "c", "i", "f", "i", "c", "a", "t", "i", "o", "n", "s", " ", "i", "n", "f", "o", "r", "m", "a", "t", "i", "o", "n">>

ItemCompliance == <<"C", "O", "M", "P", "L", "I", "A", "N", "C", "E", " ", "o", "f", "f", "i", "c", "e", "r">>

\* The items a stored analysis may list as missing.
Items == {ItemBudget, ItemSecurityRequirements, ItemBackground, ItemEmpty, ItemTechnical, ItemCompliance}

MissingLists == UNION {[1..n -> Items] : n \in 0..MaxItems}

\* missing[d] is the missing_information list of the payload heap[d]; input
\* and result are the list the last triage read and what it returned.
NoTriage == [missing |-> <<>>, ran |-> FALSE, input |-> <<>>, result |-> [error |-> FALSE]]

\* A caller stores a tender analysis whose missing_information is a list of
\* its own.
StoreAnalysisWithMissingInformation ==
    /\ CallStoreTenderAnalysis
    /\ \E missing_information \in MissingLists :
        /\ Len(heap') = Len(heap) => missing_information = <<>>
        /\ tri' = IF Len(heap') > Len(heap) THEN [tri EXCEPT !.missing = Append(@, missing_information)] ELSE tri
    /\ UNCHANGED <<wf, ses, job, wr, sq, pipe, sync, rx>>

identify_missing_information ==
    /\ LET tender_analysis == get_latest_memory(memories, "tender_analysis")
           missing_info == IF tender_analysis.data = 0 THEN <<>> ELSE tri.missing[tender_analysis.data]
       IN  IF tender_analysis = None
           THEN /\ NoEffect("identify_missing_information", "error", "No tender analysis found. Please run tender analysis first.")
                /\ tri' = [tri EXCEPT !.ran = TRUE, !.input = <<>>, !.result = [error |-> TRUE]]
           ELSE /\ NoEffect("identify_missing_information", "ok", "triage")
                /\ tri' = [tri EXCEPT !.ran = TRUE, !.input = missing_info, !.result = triage(missing_info)]
    /\ UNCHANGED <<wf, ses, job, wr, sq, pipe, sync, rx>>

\* ---------------------------------------------------------------- workflow
\* run_complete_workflow: workflow_results is the sequence of step names it
\* has filled in, outcomes the way each step it ran ended, pc the step it is
\* about to run, invoked the steps whose agent it has run, preLen the number
\* of records in the store when it began.
WorkflowSteps == <<"tender_analysis", "solution_strategy", "visualizations", "project_plan", "final_proposal">>

WorkflowIdle == [pc |-> 0, input |-> "none", status |-> "none", workflow_results |-> <<>>, outcomes |-> <<>>, invoked |-> <<>>, preLen |-> 0]

WorkflowInputs == {"none", "tender_content", "file_path"}

\* The workflow after step k ended with outcome o.  A step that raised takes
\* the except branch; a step that returned, whatever it returned, has its
\* result recorded and is followed by the next step.
WorkflowAdvance(k, o, agent) ==
    LET ran == [wf EXCEPT !.outcomes = Append(@, o), !.invoked = IF agent THEN Append(@, WorkflowSteps[k]) ELSE @] IN
    IF o = "raised"
    THEN [ran EXCEPT !.pc = Len(WorkflowSteps) + 1, !.status = "failed"]
    ELSE IF k = Len(WorkflowSteps)
         THEN [ran EXCEPT !.pc = k + 1, !.workflow_results = Append(@, WorkflowSteps[k]), !.status = "completed"]
         ELSE [ran EXCEPT !.pc = k + 1, !.workflow_results = Append(@, WorkflowSteps[k])]

\* await agent.run_async(message): the agent answers without calling a tool,
\* or fails, or calls one of its tools.  A tool that returned an error
\* dictionary is reported in the agent's answer; a tool that raised either
\* ends the run with that exception or is reported in the answer.
AgentAnswers(k, agent_name) ==
    \E raises \in BOOLEAN :
        /\ last' = Result(agent_name, IF raises THEN "raised" ELSE "ok", "no tool call", <<>>)
        /\ wf' = WorkflowAdvance(k, IF raises THEN "raised" ELSE "ok", TRUE)
        /\ UNCHANGED <<backend, memories, counter, heap, apiStores, mentions, issued>>

AgentCalled(k) ==
    \E propagate \in BOOLEAN :
        /\ propagate => last'.out = "raised"
        /\ wf' = WorkflowAdvance(k, IF propagate THEN "raised" ELSE IF last'.out = "ok" THEN "ok" ELSE "error", TRUE)

run_complete_workflow ==
    /\ wf.pc = 0
    /\ \E input \in WorkflowInputs : wf' = [WorkflowIdle EXCEPT !.pc = 1, !.input = input, !.preLen = Len(memories)]
    /\ UNCHANGED <<backend, memories, counter, heap, last, apiStores, mentions, issued>>

start_proposal_generation ==
    /\ wf.pc = 1
    /\ \/ /\ wf.input = "none"
          /\ NoEffect("start_proposal_generation", "error", "Either tender_content or file_path must be provided")
          /\ wf' = WorkflowAdvance(1, "error", FALSE)
       \/ wf.input # "none" /\ AgentAnswers(1, "tender_analysis_agent")
       \/ wf.input # "none" /\ analyze_tender_document /\ AgentCalled(1)

orchestrator_design_solution_strategy ==
    /\ wf.pc = 2
    /\ \/ AgentAnswers(2, "solution_strategy_agent")
       \/ design_solution_strategy /\ AgentCalled(2)

create_visualizations ==
    /\ wf.pc = 3
    /\ \/ AgentAnswers(3, "visualization_agent")
       \/ create_system_architecture_diagram /\ AgentCalled(3)
       \/ create_infrastructure_diagram /\ AgentCalled(3)
       \/ create_data_flow_diagram /\ AgentCalled(3)
       \/ create_project_workflow_diagram /\ AgentCalled(3)
       \/ create_sequence_diagram /\ AgentCalled(3)
       \/ create_database_er_diagram /\ AgentCalled(3)
       \/ create_all_diagrams /\ AgentCalled(3)

create_project_plan ==
    /\ wf.pc = 4
    /\ \/ AgentAnswers(4, "project_planner_agent")
       \/ create_comprehensive_project_plan /\ AgentCalled(4)
       \/ update_project_timeline /\ AgentCalled(4)

generate_final_proposal ==
    /\ wf.pc = 5
    /\ \/ AgentAnswers(5, "technical_writer_agent")
       \/ create_comprehensive_proposal /\ AgentCalled(5)

\* C14: when run_complete_workflow has returned, the steps it ran are the
\* canonical steps up to and including the first one that failed (raised or
\* returned an error); if a step failed the status is "failed" and
\* workflow_results holds exactly the steps before it, otherwise the status
\* is "completed" with all five; and every record stored is in the store.
WorkflowDone == wf.pc = Len(WorkflowSteps) + 1

C14_WorkflowStopsAtFirstFailure ==
    WorkflowDone =>
        LET failures == {k \in 1..Len(wf.outcomes) : wf.outcomes[k] # "ok"} IN
        /\ IF failures = {}
           THEN wf.status = "completed" /\ wf.workflow_results = WorkflowSteps
           ELSE LET first == CHOOSE k \in failures : \A j \in failures : k <= j IN
                /\ wf.status = "failed"
                /\ Len(wf.outcomes) = first
                /\ wf.workflow_results = SubSeq(WorkflowSteps, 1, first - 1)
        /\ \A i \in 1..Len(issued) : \E j \in 1..Len(memories) : memories[j].id = issued[i]

\* C15: a run of the workflow that was given neither tender_content nor
\* file_path ends at its first step: once that step is over the workflow
\* has returned with status "failed", no agent has been run and the store
\* holds the records it held when the run began.
C15_MissingInputEndsWorkflow ==
    (wf.input = "none" /\ wf.pc > 1) =>
        /\ WorkflowDone
        /\ wf.status = "failed"
        /\ wf.invoked = <<>>
        /\ Len(memories) = wf.preLen

\* ---------------------------------------------------------------- triage properties
Triaged == tri.ran /\ ~tri.result.error

InList(x, list) == \E i \in 1..Len(list) : list[i] = x

Count(x, list) == Cardinality({i \in 1..Len(list) : list[i] = x})

\* list keeps some of the elements of of, in the order they have in of.
IsSubsequence(list, of) ==
    \E f \in [1..Len(list) -> 1..Len(of)] :
        /\ \A i \in 1..Len(list) : of[f[i]] = list[i]
        /\ \A i, j \in 1..Len(list) : i < j => f[i] < f[j]

\* C16 as stated: triage puts "Missing budget information" in high,
\* "Missing security requirements information" in medium, "Missing
\* background information" in low and the empty string in low.
C16_TriageExamples_AsStated ==
    Triaged =>
        /\ InList(ItemBudget, tri.input) => InList(ItemBudget, tri.result.high_priority)
        /\ InList(ItemSecurityRequirements, tri.input) => InList(ItemSecurityRequirements, tri.result.medium_priority)
        /\ InList(ItemBackground, tri.input) => InList(ItemBackground, tri.result.low_priority)
        /\ InList(ItemEmpty, tri.input) => InList(ItemEmpty, tri.result.low_priority)

\* C16: triage puts "Missing budget information" in high, "Missing security
\* requirements information" in high as well (it contains the high keyword
\* "requirements", and the high keywords are tested first), "Missing
\* background information" in low and the empty string in low.
C16_TriageExamples ==
    Triaged =>
        /\ InList(ItemBudget, tri.input) => InList(ItemBudget, tri.result.high_priority)
        /\ InList(ItemSecurityRequirements, tri.input) =>
               /\ InList(ItemSecurityRequirements, tri.result.high_priority)
               /\ ~InList(ItemSecurityRequirements, tri.result.medium_priority)
        /\ InList(ItemBackground, tri.input) => InList(ItemBackground, tri.result.low_priority)
        /\ InList(ItemEmpty, tri.input) => InList(ItemEmpty, tri.result.low_priority)

\* C16 witness: a triage has run on a list holding the security requirements
\* item, the background item and the empty string.
C16_Witness_ExamplesTriaged ==
    /\ Triaged
    /\ InList(ItemSecurityRequirements, tri.input)
    /\ InList(ItemBackground, tri.input)
    /\ InList(ItemEmpty, tri.input)

\* C17: every item of the input is in exactly one bucket, as often as it is
\* in the input; an item with a high keyword is in high even if it also has a
\* medium keyword, an item with no keyword is in low; each bucket keeps the
\* input order; total_missing_items is the sum of the three bucket sizes.
C17_TriageTotalAndExclusive ==
    Triaged =>
        LET r == tri.result
            AllKeywords == priority_keywords.high \o priority_keywords.medium \o priority_keywords.low
        IN  /\ r.total_missing_items = Len(r.high_priority) + Len(r.medium_priority) + Len(r.low_priority)
            /\ r.total_missing_items = Len(tri.input)
            /\ \A i \in 1..Len(tri.input) :
                   LET x == tri.input[i] IN
                   /\ Count(x, tri.input) = Count(x, r.high_priority) + Count(x, r.medium_priority) + Count(x, r.low_priority)
                   /\ Cardinality({b \in {"high", "medium", "low"} :
                                      InList(x, IF b = "high" THEN r.high_priority ELSE IF b = "medium" THEN r.medium_priority ELSE r.low_priority)}) = 1
                   /\ any_keyword(lower(x), priority_keywords.high) => InList(x, r.high_priority)
                   /\ ~any_keyword(lower(x), AllKeywords) => InList(x, r.low_priority)
            /\ IsSubsequence(r.high_priority, tri.input)
            /\ IsSubsequence(r.medium_priority, tri.input)
            /\ IsSubsequence(r.low_priority, tri.input)

\* C17 witness: a triage has put two different items in high, the first of
\* them with a high and a medium keyword, and an item with no keyword in low.
C17_Witness_TwoInOneBucket ==
    /\ Triaged
    /\ tri.input = <<ItemSecurityRequirements, ItemBudget, ItemEmpty>>
    /\ tri.result.high_priority = <<ItemSecurityRequirements, ItemBudget>>
    /\ tri.result.low_priority = <<ItemEmpty>>

\* C18: the recommendations are the high header and one bullet per high
\* item if there is a high item, then the medium header and one bullet per
\* medium item if there is a medium item, and the closing sentence, once,
\* exactly when both buckets are empty; the list is never empty and no
\* bullet is for a low item.
C18_RecommendationsShape ==
    Triaged =>
        LET r == tri.result
            recs == r.recommendations
            h == r.high_priority
            m == r.medium_priority
            hLines == IF h # <<>> THEN 1 + Len(h) ELSE 0
            mLines == IF m # <<>> THEN 1 + Len(m) ELSE 0
            closing == {i \in 1..Len(recs) : recs[i].kind = "All critical information has been provided. The proposal can proceed."}
        IN  /\ recs # <<>>
            /\ Len(recs) = hLines + mLines + (IF h = <<>> /\ m = <<>> THEN 1 ELSE 0)
            /\ h # <<>> =>
                   /\ recs[1].kind = "Please provide the following critical information:"
                   /\ \A i \in 1..Len(h) : recs[1 + i] = Line("bullet", h[i])
            /\ m # <<>> =>
                   /\ recs[hLines + 1].kind = "The following information would be helpful to refine the solution:"
                   /\ \A i \in 1..Len(m) : recs[hLines + 1 + i] = Line("bullet", m[i])
            /\ Cardinality(closing) = (IF h = <<>> /\ m = <<>> THEN 1 ELSE 0)
            /\ \A i \in 1..Len(recs) : recs[i].kind = "bullet" => ~InList(recs[i].item, r.low_priority)

\* C18 witness: a triage has produced recommendations from one high, one
\* medium and one low item.
C18_Witness_HighMediumLow ==
    /\ Triaged
    /\ tri.result.high_priority = <<ItemBudget>>
    /\ tri.result.medium_priority = <<ItemTechnical>>
    /\ tri.result.low_priority = <<ItemBackground>>
    /\ Len(tri.result.recommendations) = 4

Sessions == {"session_1", "session_2"}

NoSessions == [current |-> "session_1", owner |-> <<>>]

\* The user id under which the store files and searches the records of a
\* session: the literal "default_user", whatever the session.
memory_user_id(session_id) == "default_user"

\* A message arrives in a session.
handle_chat_interaction ==
    \E session_id \in Sessions :
        /\ session_id # ses.current
        /\ ses' = [ses EXCEPT !.current = session_id]
        /\ UNCHANGED <<backend, memories, counter, heap, last, apiStores, mentions, issued, wf, tri, job, wr, sq, pipe, sync, rx>>

\* The records a stage function appended belong to the session whose
\* message called it.
StoredInCurrentSession ==
    /\ ses' = [ses EXCEPT !.owner = @ \o [i \in 1..(Len(memories') - Len(memories)) |-> ses.current]]
    /\ UNCHANGED <<wf, tri, job, wr, sq, pipe, sync, rx>>

\* The records the backend lets a session see: those filed under the
\* user id the session searches with.
VisibleTo(session_id) ==
    LET idx == {i \in 1..Len(memories) : memory_user_id(ses.owner[i]) = memory_user_id(session_id)}
        RECURSIVE pick(_)
        pick(i) == IF i > Len(memories) THEN <<>>
                   ELSE IF i \in idx THEN <<memories[i]>> \o pick(i + 1) ELSE pick(i + 1) IN
    pick(1)

\* The records stored in a session.
StoredIn(session_id) ==
    LET RECURSIVE pick(_)
        pick(i) == IF i > Len(memories) THEN <<>>
                   ELSE IF ses.owner[i] = session_id THEN <<memories[i]>> \o pick(i + 1) ELSE pick(i + 1) IN
    pick(1)

\* C20: a record stored in one session is never returned by search,
\* get_latest or get_all issued in a different session, and the workflow
\* status derived in a session depends only on the records stored in that
\* session; the lookups are those of the session whose message is being
\* handled.
C20_SessionsPartitioned ==
    LET session_id == ses.current IN
        LET seen == VisibleTo(session_id)
            own == Range(StoredIn(session_id)) IN
        /\ \A T \in Types :
               /\ get_latest_memory(seen, T) # None => get_latest_memory(seen, T) \in own
               /\ Range(get_all_memories(seen, T)) \subseteq own
               /\ Range(search_memories(seen, T, T)) \subseteq own
               /\ Range(search_memories(seen, T, "none")) \subseteq own
        /\ check_workflow_status(seen) = check_workflow_status(StoredIn(session_id))

\* ---------------------------------------------------------------- store outage
\* The vector store is a service of its own: the connection to it can be
\* lost and come back while the records stay where they are.
connection_lost ==
    /\ backend = "Mem0"
    /\ backend' = "Mem0Unreachable"
    /\ UNCHANGED <<memories, counter, heap, last, apiStores, mentions, issued>>

connection_restored ==
    /\ backend = "Mem0Unreachable"
    /\ backend' = "Mem0"
    /\ UNCHANGED <<memories, counter, heap, last, apiStores, mentions, issued>>

\* What check_workflow_status reports on a store without records.
EmptyStoreStatus ==
    [progress_percentage |-> 0,
     completed_steps |-> <<>>,
     missing_steps |-> <<"tender_analysis", "solution_strategy", "visualizations", "project_plan", "final_proposal">>,
     context_summary |-> <<"No information stored yet.">>,
     next_recommended_step |-> "tender_analysis"]

\* C21: while the backing store fails on reads, search and get_all return
\* the empty list and get_latest returns None, whatever the store holds,
\* and check_workflow_status reports what it reports for an empty store.
C21_ReadFailureLooksEmpty ==
    backend = "Mem0Unreachable" =>
        /\ \A T \in Types :
               /\ get_latest_memory(memories, T) = None
               /\ get_all_memories(memories, T) = <<>>
               /\ \A memory_type \in Types \cup {"none"} : search_memories(memories, T, memory_type) = <<>>
        /\ check_workflow_status(memories) = EmptyStoreStatus

\* C21 witness: the store holds records and cannot be reached.
C21_Witness_RecordsBehindOutage ==
    /\ backend = "Mem0Unreachable"
    /\ Len(memories) >= 2

\* ---------------------------------------------------------------- interrupted stages
\* A stage function runs inside a tool call of an agent; the call can be
\* ended from outside (process killed, model invocation timed out) between
\* any two of its statements.  job follows one invocation: its function,
\* the diagram the batch is at, and the length of the store when it began.
NoJob == [state |-> "idle", op |-> "none", i |-> 0, preLen |-> 0]

JobOps == {"analyze_tender_document", "create_all_diagrams"}

DiagramOps == <<"create_system_architecture_diagram", "create_infrastructure_diagram", "create_data_flow_diagram",
                "create_project_workflow_diagram", "create_sequence_diagram", "create_database_er_diagram">>

invoke_stage ==
    \E op \in JobOps :
        /\ job.state # "running"
        /\ Len(memories) < StoreBound
        /\ job' = [state |-> "running", op |-> op, i |-> 1, preLen |-> Len(memories)]
        /\ UNCHANGED <<backend, memories, counter, heap, last, apiStores, mentions, issued, wf, tri, ses, wr, sq, pipe, sync, rx>>

kill_stage ==
    /\ job.state = "running"
    /\ job' = [job EXCEPT !.state = "killed"]
    /\ UNCHANGED <<backend, memories, counter, heap, last, apiStores, mentions, issued, wf, tri, ses, wr, sq, pipe, sync, rx>>

\* The tender analysis computes its result and stores it with its last
\* statement but one.
analyze_tender_document_completes ==
    /\ job.state = "running" /\ job.op = "analyze_tender_document"
    /\ analyze_tender_document
    /\ job' = [job EXCEPT !.state = "done"]
    /\ UNCHANGED <<wf, tri, ses, wr, sq, pipe, sync, rx>>

\* One try block of create_all_diagrams: the next diagram function runs
\* and stores its diagram before the batch goes on to the following one.
create_all_diagrams_step ==
    \E i \in 1..Len(DiagramTypes) :
        /\ job.state = "running" /\ job.op = "create_all_diagrams" /\ job.i = i
        /\ CreateDiagram(DiagramOps[i], DiagramTypes[i])
        /\ job' = [job EXCEPT !.i = i + 1, !.state = IF i = Len(DiagramTypes) THEN "done" ELSE "running"]
        /\ UNCHANGED <<wf, tri, ses, wr, sq, pipe, sync, rx>>

\* C22: a stage invocation that is killed before it completes leaves the
\* store as it was when the invocation began.
C22_KilledStageLeavesStoreUntouched ==
    job.state = "killed" => Len(memories) = job.preLen

\* ---------------------------------------------------------------- concurrent writers
\* Two callers inside a store_* method at the same time.  The method is two
\* statements, the search that counts and the add, and the other caller
\* can run between them.  wr[w] is where caller w stands: the count it has
\* read, the length of the store when it read it, and where its entry went.
Writers == {"writer_1", "writer_2"}

RaceTypes == {"tender_analysis", "visualization"}

IdleWriter == [pc |-> "idle", type |-> "none", count |-> 0, sawLen |-> 0, id |-> NoId, at |-> 0]

NoWriters == [w \in Writers |-> IdleWriter]

RaceDiagram(T) == IF T = "visualization" THEN "data_flow" ELSE "none"

\* An id made from the count at the moment of the add.
id_at_add_Recounting(read_count, mems, T, dt) == memory_id(T, dt, Len(Mem0_search(mems, T)))

\* The id a store_* method hands to add: made from the count it read in
\* the statement before.
id_at_add(read_count, mems, T, dt) == memory_id(T, dt, read_count)

\* First statement of store_*: the search whose length becomes the number
\* in the id.
store_search ==
    \E w \in Writers : \E T \in RaceTypes :
        /\ wr[w].pc # "searched"
        /\ Len(memories) + Cardinality({v \in Writers : wr[v].pc = "searched"}) < MaxRecords
        /\ LET s == memory_search(memories, T) IN
           wr' = [wr EXCEPT ![w] = IF s.raised
                                   THEN [IdleWriter EXCEPT !.pc = "raised", !.type = T]
                                   ELSE [IdleWriter EXCEPT !.pc = "searched", !.type = T, !.count = Len(s.results), !.sawLen = Len(memories)]]
        /\ UNCHANGED <<backend, memories, counter, heap, last, apiStores, mentions, issued, wf, tri, ses, job, sq, pipe, sync, rx>>

\* Second statement of store_*: the add, and the return of the id.
store_add ==
    \E w \in Writers :
        /\ wr[w].pc = "searched"
        /\ LET T == wr[w].type
               id == id_at_add(wr[w].count, memories, T, RaceDiagram(T))
               a == memory_add(memories, id, T, RaceDiagram(T), PrefixWords(T), 0) IN
           /\ memories' = a.mems
           /\ counter' = IF a.raised THEN counter ELSE counter + 1
           /\ issued' = IF a.raised THEN issued ELSE Append(issued, id)
           /\ last' = IF a.raised THEN Result("store", "raised", T, <<>>) ELSE Result("store", "ok", T, <<id>>)
           /\ wr' = [wr EXCEPT ![w] = IF a.raised THEN [@ EXCEPT !.pc = "raised"]
                                      ELSE [@ EXCEPT !.pc = "done", !.id = id, !.at = Len(a.mems)]]
        /\ UNCHANGED <<backend, heap, apiStores, mentions, wf, tri, ses, job, sq, pipe, sync, rx>>

\* C23: two writers of one type that read the same count return the same
\* id, and the store then holds two records under that id.
C23_SameCountSameId ==
    \A w \in Writers : \A v \in Writers \ {w} :
        (/\ wr[w].pc = "done" /\ wr[v].pc = "done"
         /\ wr[w].type = wr[v].type
         /\ wr[w].count = wr[v].count)
        => /\ wr[w].id = wr[v].id
           /\ wr[w].at # wr[v].at
           /\ memories[wr[w].at].id = wr[w].id
           /\ memories[wr[v].at].id = wr[w].id

\* C23 witness: both writers searched the same store before either added,
\* each has returned, and two records of the store share one id.
C23_Witness_TwoRecordsOneId ==
    \E w \in Writers : \E v \in Writers \ {w} :
        /\ wr[w].pc = "done" /\ wr[v].pc = "done"
        /\ wr[w].type = "visualization" /\ wr[v].type = "visualization"
        /\ wr[w].sawLen = wr[v].sawLen
        /\ wr[w].id = wr[v].id
        /\ \E i \in 1..Len(memories) : \E j \in 1..Len(memories) :
               i # j /\ memories[i].id = memories[j].id

\* ---------------------------------------------------------------- clearing
\* C24: after clear(T) the store holds no record of type T, get_all(T) is
\* empty and get_latest(T) is None, and the records of the other types are
\* the ones that were there; after clear() the store is empty.
C24_ClearRemovesRecordsOfType ==
    last.op = "clear_memories" =>
        IF last.detail = "none"
        THEN memories = <<>>
        ELSE /\ RecordsOfType(memories, last.detail) = <<>>
             /\ get_all_memories(memories, last.detail) = <<>>
             /\ get_latest_memory(memories, last.detail) = None
             /\ \A T \in Types \ {last.detail} : RecordsOfType(memories, T) = RecordsOfType(Before, T)

\* ---------------------------------------------------------------- search by content
\* The search on contents written out as texts, so that the comparison of
\* the lowered query with the lowered content is computed.
TextBudget == <<"B", "u", "d", "g", "e", "t">>

TextBudgets == <<"b", "U", "D", "G", "E", "T", "s">>

TextCost == <<"c", "o", "s", "t">>

Contents == {TextBudget, TextBudgets, TextCost}

Queries == {<<"b", "u", "d">>, <<"B", "U", "D">>, <<"o", "s">>, <<"x">>, <<>>}

SearchTypes == {"tender_analysis", "solution_strategy"}

\* memory_type as the caller passes it: None, the empty string, or a type.
TypeFilters == {"none", ""} \cup SearchTypes

TextRecords == [type : SearchTypes, content : Contents]

TextStores == UNION {[1..n -> TextRecords] : n \in 0..MaxStoreTexts}

NoSearch == [ran |-> FALSE, store |-> <<>>, query |-> <<>>, memory_type |-> "none", result |-> <<>>]

\* A search that compares the texts as they are.
MockMemory_search_content_CaseSensitive(mems, query) ==
    SelectSeq(mems, LAMBDA memory : Contains(memory.content, query))

\* query.lower() in memory["content"].lower(), over the entries in order.
MockMemory_search_content(mems, query) ==
    SelectSeq(mems, LAMBDA memory : Contains(lower(memory.content), lower(query)))

Mem0_search_content(mems, query) == MockMemory_search_content(mems, query)

\* SharedMemory.search_memories on contents: the backend search, then the
\* filter on metadata type when memory_type is truthy.
search_memories_content(mems, query, memory_type) ==
    IF backend \in {"MockMemory", "Mem0Unreachable"}
    THEN <<>>
    ELSE LET results == Mem0_search_content(mems, query) IN
         IF memory_type \notin {"none", ""}
         THEN SelectSeq(results, LAMBDA result : result.type = memory_type)
         ELSE results

\* A caller searches a store; on the fallback backend the store is the
\* empty one, since no add reaches it.
search_by_content ==
    \E texts \in TextStores : \E query \in Queries : \E memory_type \in TypeFilters :
        /\ ~sq.ran
        /\ backend = "MockMemory" => texts = <<>>
        /\ sq' = [ran |-> TRUE, store |-> texts, query |-> query, memory_type |-> memory_type,
                  result |-> search_memories_content(texts, query, memory_type)]
        /\ UNCHANGED <<backend, memories, counter, heap, last, apiStores, mentions, issued, wf, tri, ses, job, wr, pipe, sync, rx>>

\* Two characters that are the same letter, whatever their case.
SameLetter(a, b) == a = b \/ \E j \in 1..Len(UpperCase) : {a, b} = {UpperCase[j], LowerCase[j]}

\* text has a run of characters that spells query up to case.
SpellsWithin(text, query) ==
    \E i \in 0..(Len(text) - Len(query)) : \A k \in 1..Len(query) : SameLetter(text[i + k], query[k])

NoPipeline == [pc |-> 0, fromEmpty |-> FALSE]

start_pipeline ==
    /\ pipe.pc \in {0, 6}
    /\ Len(memories) < MaxRecords
    /\ pipe' = [pc |-> 1, fromEmpty |-> memories = <<>>]
    /\ UNCHANGED <<backend, memories, counter, heap, last, apiStores, mentions, issued, wf, tri, ses, job, wr, sq, sync, rx>>

\* The stage that has just run was given a tender text.
TenderTextGiven == last'.out = "raised" \/ last'.detail = "text"

PipelineAdvances ==
    /\ pipe' = [pipe EXCEPT !.pc = @ + 1]
    /\ UNCHANGED <<wf, tri, ses, job, wr, sq, sync, rx>>

\* C26: when the five stages have run in order on a tender text, starting
\* from an empty store, the store holds a technical proposal that the
\* writer built from a stored project plan (the source of total_cost and
\* duration) and from the stored tender analysis (the source of the
\* functional requirements).
C26_FiveStagesYieldProposal ==
    (pipe.pc = 6 /\ pipe.fromEmpty) =>
        /\ last.op = "create_comprehensive_proposal" /\ last.out = "ok"
        /\ last.detail = "plan"
        /\ RecordsOfType(Added, "technical_proposal") # <<>>
        /\ RecordsOfType(Before, "tender_analysis") # <<>>
        /\ RecordsOfType(Before, "project_plan") # <<>>

\* ---------------------------------------------------------------- fallback backend
\* C27: with the in-memory fallback backend in use, a store_* call returns
\* without raising and has added its record, and a search for any keyword
\* of the stored content returns that record.
C27_FallbackBackendStoresAndFinds ==
    (backend = "MockMemory" /\ last.op \in StoreCalls) =>
        /\ last.out = "ok"
        /\ Len(Added) = 1
        /\ \A q \in Added[1].words : \E i \in 1..Len(search_memories(memories, q, "none")) :
               search_memories(memories, q, "none")[i] = Added[1]

\* ---------------------------------------------------------------- failed extraction
\* C28: a tender analysis whose document could not be read (the file does
\* not exist, its type is not supported, the parser failed) stores no
\* record and leaves the derived workflow state as it was.
C28_FailedExtractionStoresNothing ==
    (last.op = "analyze_tender_document" /\ last.detail = "file_error") =>
        /\ Added = <<>>
        /\ check_workflow_status(memories) = check_workflow_status(Before)

\* ---------------------------------------------------------------- sync wrappers
\* The six *_sync wrappers called from inside a running event loop.
\* sync.started is the set of wrappers that have returned the "started"
\* placeholder and sync.tasks the coroutines scheduled on the loop.
Wrappers == {"start_proposal_generation_sync", "design_solution_strategy_sync", "create_visualizations_sync",
             "create_project_plan_sync", "generate_final_proposal_sync", "run_complete_workflow_sync"}

\* The coroutine a wrapper stands for.
CoroutineOf(wrapper) ==
    CASE wrapper = "start_proposal_generation_sync" -> "start_proposal_generation"
      [] wrapper = "design_solution_strategy_sync" -> "design_solution_strategy"
      [] wrapper = "create_visualizations_sync" -> "create_visualizations"
      [] wrapper = "create_project_plan_sync" -> "create_project_plan"
      [] wrapper = "generate_final_proposal_sync" -> "generate_final_proposal"
      [] wrapper = "run_complete_workflow_sync" -> "run_complete_workflow"

\* The type of the record a coroutine leaves when its stage succeeds; for
\* the complete workflow, the record of its last stage.
RecordTypeOf(coroutine) ==
    CASE coroutine = "start_proposal_generation" -> "tender_analysis"
      [] coroutine = "design_solution_strategy" -> "solution_strategy"
      [] coroutine = "create_visualizations" -> "visualization"
      [] coroutine = "create_project_plan" -> "project_plan"
      [] coroutine = "generate_final_proposal" -> "technical_proposal"
      [] coroutine = "run_complete_workflow" -> "technical_proposal"

\* The wrappers whose loop.is_running() branch calls asyncio.create_task.
CreatesTask(wrapper) == wrapper = "start_proposal_generation_sync"

NoSync == [started |-> {}, tasks |-> {}]

\* A wrapper is called while the loop runs: it returns the placeholder.
call_sync_wrapper ==
    \E wrapper \in Wrappers :
        /\ wrapper \notin sync.started
        /\ sync' = [started |-> sync.started \cup {wrapper},
                    tasks |-> IF CreatesTask(wrapper) THEN sync.tasks \cup {CoroutineOf(wrapper)} ELSE sync.tasks]
        /\ UNCHANGED <<backend, memories, counter, heap, last, apiStores, mentions, issued, wf, tri, ses, job, wr, sq, pipe, rx>>

\* The loop runs a scheduled coroutine, and its stage succeeds: a record
\* of the stage's type, whose content names the type, is stored.
run_task ==
    \E coroutine \in sync.tasks :
        LET T == RecordTypeOf(coroutine)
            r == store(memories, T, IF T = "visualization" THEN "data_flow" ELSE "none", {T}, 0) IN
        /\ sync' = [sync EXCEPT !.tasks = @ \ {coroutine}]
        /\ memories' = r.mems
        /\ counter' = IF r.raised THEN counter ELSE counter + 1
        /\ issued' = IF r.raised THEN issued ELSE Append(issued, r.id)
        /\ last' = IF r.raised THEN Result(coroutine, "raised", "TypeError", <<>>) ELSE Result(coroutine, "ok", T, <<r.id>>)
        /\ UNCHANGED <<backend, heap, apiStores, mentions, wf, tri, ses, job, wr, sq, pipe, rx>>

\* C29: once a wrapper has returned the "started" placeholder on a
\* backend that stores, a record of its stage's type eventually becomes
\* visible to get_latest, the loop running every task it holds.
C29_StartedStageEventuallyVisible ==
    \A wrapper \in Wrappers :
        (backend = "Mem0" /\ wrapper \in sync.started)
            ~> (get_latest_memory(memories, RecordTypeOf(CoroutineOf(wrapper))) # None)

\* ---------------------------------------------------------------- reported status
\* The memory type of the record a workflow step stands for.
StepType(k) == StageOrder[k]

\* The steps whose orchestrator function returned its success status
\* (tender_analyzed, strategy_designed, ...): those whose agent run returned.
ReportedSuccess == {k \in 1..Len(wf.outcomes) : wf.outcomes[k] # "raised" /\ InList(WorkflowSteps[k], wf.invoked)}

\* C30: when run_complete_workflow has returned "completed", the status
\* derived from the store is 100% with no missing step and next step
\* "complete"; and a step reports its success status only if a record of
\* its type was written since the workflow began.
C30_ReportedStatusMatchesData ==
    /\ (WorkflowDone /\ wf.status = "completed") =>
           /\ check_workflow_status(memories).progress_percentage = 100
           /\ check_workflow_status(memories).missing_steps = <<>>
           /\ check_workflow_status(memories).next_recommended_step = "complete"
    /\ \A k \in ReportedSuccess :
           RecordsOfType(SubSeq(memories, wf.preLen + 1, Len(memories)), StepType(k)) # <<>>

\* ---------------------------------------------------------------- queries
\* The functions that only read.  Each leaves in last what it was asked
\* (arg) and what it returned (result).
Answer(arg, result) == [arg |-> arg, result |-> result]

CallCheckWorkflowStatus ==
    NoEffect("check_workflow_status", "ok", Answer("none", check_workflow_status(memories)))

CallGetLatestMemory ==
    \E memory_type \in Types :
        NoEffect("get_latest_memory", "ok", Answer(memory_type, get_latest_memory(memories, memory_type)))

CallGetAllMemories ==
    \E memory_type \in Types :
        NoEffect("get_all_memories", "ok", Answer(memory_type, get_all_memories(memories, memory_type)))

CallSearchMemories ==
    \E query \in Types : \E memory_type \in Types \cup {"none"} :
        NoEffect("search_memories", "ok", Answer(<<query, memory_type>>, search_memories(memories, query, memory_type)))

\* The summary is read off the executive summary of the fetched data, with
\* defaults for what the data does not have.
generate_proposal_summary ==
    LET proposal == get_latest_memory(memories, "technical_proposal")
        proposal_data == DataOf(heap, proposal) IN
    IF proposal = None
    THEN NoEffect("generate_proposal_summary", "error", Answer("none", "No technical proposal found. Please complete the workflow first."))
    ELSE NoEffect("generate_proposal_summary", "ok",
                  Answer("none", [status |-> "ready_for_review", executive_summary |-> proposal_data.shape = "proposal", words |-> proposal_data.words]))

\* The summary is read off the timeline, the costs and the risks of the
\* fetched data, with defaults for what the data does not have.
generate_project_summary ==
    LET project_plan == get_latest_memory(memories, "project_plan")
        plan_data == DataOf(heap, project_plan) IN
    IF project_plan = None
    THEN NoEffect("generate_project_summary", "error", Answer("none", "No project plan found in memory"))
    ELSE NoEffect("generate_project_summary", "ok",
                  Answer("none", [duration |-> IF plan_data.timeline < 0 THEN 0 ELSE plan_data.timeline, words |-> plan_data.words]))

QueryOps == {"check_workflow_status", "identify_missing_information", "generate_proposal_summary",
             "generate_project_summary", "search_memories", "get_latest_memory", "get_all_memories"}

\* A payload stored without a missing_information list counts as having
\* an empty one.
MissingAligned ==
    tri' = [tri EXCEPT !.missing = IF Len(heap') > Len(heap) THEN Append(@, <<>>) ELSE @]

\* The missing-information lists of the analyses stored before queries.
QueryMissingLists == {<<>>, <<ItemBudget, ItemBackground>>}

\* C31: a query leaves the records of the store and their payloads as they
\* were, and a query that follows the same query with the same arguments
\* returns what that one returned.
C31_QueriesAreReadOnly ==
    [][last'.op \in QueryOps =>
          /\ memories' = memories
          /\ heap' = heap
          /\ counter' = counter
          /\ last.op = last'.op =>
                 IF last.op = "identify_missing_information"
                 THEN tri'.result = tri.result /\ last'.out = last.out
                 ELSE last.detail.arg = last'.detail.arg => (last'.detail = last.detail /\ last'.out = last.out)]_vars

\* C31 witness: the project summary and the triage have been computed
\* from stored records.
C31_Witness_QueryOnStoredRecord ==
    /\ memories # <<>> /\ heap # <<>>
    /\ \/ last.op = "generate_project_summary" /\ last.out = "ok"
       \/ last.op = "identify_missing_information" /\ last.out = "ok" /\ tri.result.total_missing_items = 2

\* ---------------------------------------------------------------- absent records
\* The type of the record a function needs before it can answer.
RequiredType ==
    [identify_missing_information |-> "tender_analysis",
     generate_proposal_summary |-> "technical_proposal",
     update_project_timeline |-> "project_plan"]

\* The error each of them returns when its lookup finds nothing.
AbsentError ==
    [identify_missing_information |-> "No tender analysis found. Please run tender analysis first.",
     generate_proposal_summary |-> "No technical proposal found. Please complete the workflow first.",
     update_project_timeline |-> "No project plan found in memory"]

\* What the last call returned besides an outcome.
Returned == IF last.op = "generate_proposal_summary" THEN last.detail.result ELSE last.detail

\* C32: identify_missing_information without a tender_analysis record,
\* generate_proposal_summary without a technical_proposal record and
\* update_project_timeline without a project_plan record return the error
\* that names what is missing, compute no classification, summary or
\* timeline, and store nothing.
C32_AbsentRecordGivesError ==
    \A op \in DOMAIN RequiredType :
        (last.op = op /\ RecordsOfType(Before, RequiredType[op]) = <<>>) =>
            /\ last.out = "error"
            /\ Returned = AbsentError[op]
            /\ Added = <<>>
            /\ op = "identify_missing_information" => tri.result = [error |-> TRUE]

\* ---------------------------------------------------------------- full batch
\* C33: when a solution_strategy record is in the store and none of the six
\* diagram generations raises, create_all_diagrams adds six records, all
\* visualizations, the i-th of the i-th diagram type, with six different
\* ids.
C33_BatchAddsSixVisualizations ==
    (/\ last.op = "create_all_diagrams"
     /\ RecordsOfType(Before, "solution_strategy") # <<>>
     /\ \A i \in 1..Len(last.entries) : last.entries[i] # "raised") =>
        /\ Len(Added) = Len(DiagramTypes)
        /\ \A i \in 1..Len(Added) : Added[i].type = "visualization" /\ Added[i].diagram_type = DiagramTypes[i]
        /\ \A i, j \in 1..Len(Added) : i # j => Added[i].id # Added[j].id

\* ---------------------------------------------------------------- analysis by id
\* C34: design_solution_strategy called with the id of a tender_analysis
\* record of the store reads that record, and called without an id reads
\* the latest tender_analysis record.
C34_StrategyReadsGivenAnalysis ==
    last.op = "design_solution_strategy" =>
        IF last.arg # NoId
        THEN (\E i \in 1..Len(Before) : Before[i].id = last.arg /\ Before[i].type = "tender_analysis") => last.used = last.arg
        ELSE last.used = get_latest_memory(Before, "tender_analysis").id

\* ---------------------------------------------------------------- requirements extraction
\* extract_requirements_from_text on a text of symbols.  A symbol is one
\* character (blank, newline "nl", full stop, colon, dollar sign, a digit,
\* a letter) or one of the words the patterns look for, taken whole.
Symbols == {"must", "budget", "deadline", " ", "nl", ".", ":", "$", "1", "a"}

Texts == UNION {[1..n -> Symbols] : n \in 0..MaxText}

\* \s, [:\s], [^.\n], \d and . of the patterns, as sets of symbols.
Whitespace == {" ", "nl"}

Separators == {":", " ", "nl"}

NotStopOrNewline == Symbols \ {".", "nl"}

Digits == {"1"}

NotNewline == Symbols \ {"nl"}

\* The length of the longest run of symbols of C that starts at t[i].
RECURSIVE Run(_, _, _)
Run(t, i, C) == IF i <= Len(t) /\ t[i] \in C THEN 1 + Run(t, i + 1, C) ELSE 0

NoMatch == [found |-> FALSE, from |-> 0, to |-> 0, next |-> 0]

Largest(S) == CHOOSE x \in S : \A y \in S : y <= x

Smallest(S) == CHOOSE x \in S : \A y \in S : x <= y

\* word[:\s]+([^.\n]+) tried at t[i]: the separators are taken greedily and
\* given back one at a time until the group has a first symbol; the group
\* then runs as far as it can.
keyword_match(word, t, i) ==
    LET r == Run(t, i + 1, Separators)
        kept == {k \in 1..r : Run(t, i + 1 + k, NotStopOrNewline) > 0}
    IN  IF t[i] # word \/ kept = {}
        THEN NoMatch
        ELSE LET from == i + 1 + Largest(kept)
                 to == from + Run(t, from, NotStopOrNewline) - 1
             IN  [found |-> TRUE, from |-> from, to |-> to, next |-> to + 1]

\* The lengths the group (.+?) can have from t[from]: no newline inside,
\* and behind it a full stop, the end of the text, or the newline that
\* ends the text.
modal_lengths(t, from) ==
    {n \in 1..(Len(t) - from + 1) :
        /\ Run(t, from, NotNewline) >= n
        /\ LET p == from + n IN
               \/ p = Len(t) + 1
               \/ p <= Len(t) /\ t[p] = "."
               \/ p = Len(t) /\ t[p] = "nl"}

\* word\s+(?:be\s+)?(?:able\s+to\s+)?(.+?)(?:\.|$) tried at t[i], on texts
\* without "be" and "able": the whitespace is taken greedily and given
\* back until the group can end, and the group is the shortest that can.
modal_match(word, t, i) ==
    LET r == Run(t, i + 1, Whitespace)
        kept == {k \in 1..r : modal_lengths(t, i + 1 + k) # {}}
    IN  IF t[i] # word \/ kept = {}
        THEN NoMatch
        ELSE LET from == i + 1 + Largest(kept)
                 to == from + Smallest(modal_lengths(t, from)) - 1
             IN  [found |-> TRUE, from |-> from, to |-> to,
                  next |-> IF to + 1 <= Len(t) /\ t[to + 1] = "." THEN to + 2 ELSE to + 1]

\* (\$[\d,]+) tried at t[i], on texts without commas.
amount_match(t, i) ==
    LET d == Run(t, i + 1, Digits) IN
    IF t[i] # "$" \/ d = 0
    THEN NoMatch
    ELSE [found |-> TRUE, from |-> i, to |-> i + d, next |-> i + d + 1]

match(pattern, t, i) ==
    CASE pattern.kind = "keyword" -> keyword_match(pattern.word, t, i)
      [] pattern.kind = "modal" -> modal_match(pattern.word, t, i)
      [] pattern.kind = "amount" -> amount_match(t, i)

\* re.findall(pattern, text, re.IGNORECASE): the groups of the matches from
\* left to right, each search starting where the match before it ended.
RECURSIVE findall(_, _, _)
findall(pattern, t, i) ==
    IF i > Len(t)
    THEN <<>>
    ELSE LET m == match(pattern, t, i) IN
         IF m.found
         THEN <<SubSeq(t, m.from, m.to)>> \o findall(pattern, t, m.next)
         ELSE findall(pattern, t, i + 1)

\* The pattern lists.  A pattern whose word no text of Symbols has finds
\* nothing in these texts; those of them that have a form of their own
\* ("system ...", "... USD", "... weeks") are left out.
functional_patterns == <<[kind |-> "modal", word |-> "must"], [kind |-> "modal", word |-> "should"], [kind |-> "modal", word |-> "shall"]>>

budget_patterns == <<[kind |-> "keyword", word |-> "budget"], [kind |-> "keyword", word |-> "cost"], [kind |-> "keyword", word |-> "price"], [kind |-> "amount", word |-> "$"]>>

timeline_patterns == <<[kind |-> "keyword", word |-> "deadline"], [kind |-> "keyword", word |-> "timeline"], [kind |-> "keyword", word |-> "duration"]>>

tech_patterns == <<[kind |-> "keyword", word |-> "technology"], [kind |-> "keyword", word |-> "platform"], [kind |-> "keyword", word |-> "framework"], [kind |-> "keyword", word |-> "language"], [kind |-> "keyword", word |-> "database"]>>

\* for pattern in patterns: requirements[key].extend(re.findall(...))
RECURSIVE extend_all(_, _, _)
extend_all(patterns, t, k) ==
    IF k > Len(patterns) THEN <<>> ELSE findall(patterns[k], t, 1) \o extend_all(patterns, t, k + 1)

\* str.strip()
strip(item) ==
    LET inside == {k \in 1..Len(item) : item[k] \notin Whitespace} IN
    IF inside = {} THEN <<>> ELSE SubSeq(item, Smallest(inside), Largest(inside))

\* A clean-up that keeps the items as they were found.
clean_up_Unstripped(items) == {items[k] : k \in {j \in 1..Len(items) : strip(items[j]) # <<>>}}

\* set([item.strip() for item in items if item.strip()])
clean_up(items) == {strip(items[k]) : k \in {j \in 1..Len(items) : strip(items[j]) # <<>>}}

\* list(set): the members in an order the code does not choose.
Orderings(S) == {l \in [1..Cardinality(S) -> S] : \A x \in S : \E k \in 1..Cardinality(S) : l[k] = x}

ListFields == {"functional_requirements", "non_functional_requirements", "technical_constraints", "budget_constraints",
               "timeline_constraints", "key_stakeholders", "success_criteria"}

\* What the patterns find for each list field before the clean-up; three
\* of the lists are never filled.
found_items(t) ==
    [functional_requirements |-> extend_all(functional_patterns, t, 1),
     non_functional_requirements |-> <<>>,
     technical_constraints |-> extend_all(tech_patterns, t, 1),
     budget_constraints |-> extend_all(budget_patterns, t, 1),
     timeline_constraints |-> extend_all(timeline_patterns, t, 1),
     key_stakeholders |-> <<>>,
     success_criteria |-> <<>>]

NoRequirements == [f \in ListFields |-> <<>>]

NoExtraction == [text |-> <<>>, ran |-> FALSE, requirements |-> NoRequirements]

extract_requirements_from_text ==
    /\ ~rx.ran
    /\ LET items == found_items(rx.text) IN
       \E functional \in Orderings(clean_up(items.functional_requirements)) :
       \E technical \in Orderings(clean_up(items.technical_constraints)) :
       \E budget \in Orderings(clean_up(items.budget_constraints)) :
       \E timeline \in Orderings(clean_up(items.timeline_constraints)) :
           rx' = [rx EXCEPT !.ran = TRUE,
                            !.requirements = [functional_requirements |-> functional,
                                              non_functional_requirements |-> <<>>,
                                              technical_constraints |-> technical,
                                              budget_constraints |-> budget,
                                              timeline_constraints |-> timeline,
                                              key_stakeholders |-> <<>>,
                                              success_criteria |-> <<>>]]
    /\ UNCHANGED <<backend, memories, counter, heap, last, apiStores, mentions, issued, wf, tri, ses, job, wr, sq, pipe, sync>>

\* C35: every list of the extraction holds only non-empty strings that
\* neither begin nor end with whitespace, and holds no string twice.
C35_ListsAreCleanAndDistinct ==
    rx.ran =>
        \A f \in ListFields :
            LET items == rx.requirements[f] IN
            /\ \A k \in 1..Len(items) :
                   /\ items[k] # <<>>
                   /\ items[k][1] \notin Whitespace
                   /\ items[k][Len(items[k])] \notin Whitespace
            /\ \A j, k \in 1..Len(items) : j # k => items[j] # items[k]

\* C35 witness: an extraction of a text in which two patterns found the
\* same string, which the list holds once.
C35_Witness_RepeatedItemKeptOnce ==
    /\ rx.ran
    /\ \E f \in ListFields :
           LET items == found_items(rx.text)[f] IN
           /\ \E j, k \in 1..Len(items) : j # k /\ items[j] = items[k]
           /\ Len(rx.requirements[f]) = 1

\* ---------------------------------------------------------------- specification
Init ==
    /\ backend \in Backends
    /\ memories = <<>>
    /\ counter = 0
    /\ heap = <<>>
    /\ apiStores = 0
    /\ mentions = 0
    /\ issued = <<>>
    /\ last = [op |-> "init", out |-> "ok", detail |-> "none", ids |-> <<>>, preLen |-> 0, entries |-> <<>>, arg |-> NoId, used |-> NoId]
    /\ wf = WorkflowIdle
    /\ tri = NoTriage
    /\ ses = NoSessions
    /\ job = NoJob
    /\ wr = NoWriters
    /\ sq = NoSearch
    /\ pipe = NoPipeline
    /\ sync = NoSync
    /\ rx = NoExtraction

Next ==
    \/ CallStoreTenderAnalysis /\ UNCHANGED aux
    \/ CallStoreSolutionStrategy /\ UNCHANGED aux
    \/ CallStoreVisualization /\ UNCHANGED aux
    \/ CallStoreProjectPlan /\ UNCHANGED aux
    \/ CallStoreTechnicalProposal /\ UNCHANGED aux
    \/ analyze_tender_document /\ UNCHANGED aux
    \/ design_solution_strategy /\ UNCHANGED aux
    \/ create_system_architecture_diagram /\ UNCHANGED aux
    \/ create_infrastructure_diagram /\ UNCHANGED aux
    \/ create_data_flow_diagram /\ UNCHANGED aux
    \/ create_project_workflow_diagram /\ UNCHANGED aux
    \/ create_sequence_diagram /\ UNCHANGED aux
    \/ create_database_er_diagram /\ UNCHANGED aux
    \/ create_all_diagrams /\ UNCHANGED aux
    \/ create_comprehensive_project_plan /\ UNCHANGED aux
    \/ create_comprehensive_proposal /\ UNCHANGED aux
    \/ update_project_timeline /\ UNCHANGED aux
    \/ clear_memories /\ UNCHANGED aux

Spec == Init /\ [][Next]_vars

\* One run of the complete workflow, on a store that is empty or holds one
\* solution strategy stored before the run.
NextWorkflow ==
    \/ wf.pc = 0 /\ CallStoreSolutionStrategy /\ UNCHANGED aux
    \/ run_complete_workflow /\ UNCHANGED <<tri, ses, job, wr, sq, pipe, sync, rx>>
    \/ start_proposal_generation /\ UNCHANGED <<tri, ses, job, wr, sq, pipe, sync, rx>>
    \/ orchestrator_design_solution_strategy /\ UNCHANGED <<tri, ses, job, wr, sq, pipe, sync, rx>>
    \/ create_visualizations /\ UNCHANGED <<tri, ses, job, wr, sq, pipe, sync, rx>>
    \/ create_project_plan /\ UNCHANGED <<tri, ses, job, wr, sq, pipe, sync, rx>>
    \/ generate_final_proposal /\ UNCHANGED <<tri, ses, job, wr, sq, pipe, sync, rx>>

SpecWorkflow == Init /\ [][NextWorkflow]_vars

\* Triage of the missing information of a stored tender analysis.
NextTriage ==
    \/ StoreAnalysisWithMissingInformation
    \/ identify_missing_information

SpecTriage == Init /\ [][NextTriage]_vars

\* Stage functions called from the messages of two chat sessions.
NextSessions ==
    \/ handle_chat_interaction
    \/ analyze_tender_document /\ StoredInCurrentSession
    \/ design_solution_strategy /\ StoredInCurrentSession
    \/ create_data_flow_diagram /\ StoredInCurrentSession
    \/ create_comprehensive_project_plan /\ StoredInCurrentSession
    \/ CallStoreSolutionStrategy /\ StoredInCurrentSession

SpecSessions == Init /\ [][NextSessions]_vars

\* Stage functions on a vector store whose connection comes and goes.
NextOutage ==
    \/ connection_lost /\ UNCHANGED aux
    \/ connection_restored /\ UNCHANGED aux
    \/ analyze_tender_document /\ UNCHANGED aux
    \/ CallStoreSolutionStrategy /\ UNCHANGED aux
    \/ create_all_diagrams /\ UNCHANGED aux
    \/ create_comprehensive_project_plan /\ UNCHANGED aux

SpecOutage == Init /\ [][NextOutage]_vars

\* Stage invocations that can be killed before they complete.
NextKill ==
    \/ CallStoreSolutionStrategy /\ job.state # "running" /\ UNCHANGED aux
    \/ invoke_stage
    \/ kill_stage
    \/ analyze_tender_document_completes
    \/ create_all_diagrams_step

SpecKill == Init /\ [][NextKill]_vars

\* Two callers storing at the same time.
NextRace ==
    \/ store_search
    \/ store_add

SpecRace == Init /\ [][NextRace]_vars

\* Searches over stores of texts.
NextSearch ==
    \/ search_by_content

SpecSearch == Init /\ [][NextSearch]_vars

\* The five stages in order, on a store that is empty or holds a record a
\* caller stored before.
NextPipeline ==
    \/ pipe.pc = 0 /\ CallStoreSolutionStrategy /\ UNCHANGED aux
    \/ pipe.pc = 0 /\ CallStoreProjectPlan /\ UNCHANGED aux
    \/ start_pipeline
    \/ pipe.pc = 1 /\ analyze_tender_document /\ TenderTextGiven /\ PipelineAdvances
    \/ pipe.pc = 2 /\ design_solution_strategy /\ PipelineAdvances
    \/ pipe.pc = 3 /\ create_all_diagrams /\ PipelineAdvances
    \/ pipe.pc = 4 /\ create_comprehensive_project_plan /\ PipelineAdvances
    \/ pipe.pc = 5 /\ create_comprehensive_proposal /\ PipelineAdvances

SpecPipeline == Init /\ [][NextPipeline]_vars

\* Sync wrappers called inside an event loop that keeps running.
NextSync ==
    \/ call_sync_wrapper
    \/ run_task

SpecSync == Init /\ [][NextSync]_vars /\ WF_vars(run_task)

\* Queries on a store that callers fill.
NextQueries ==
    \/ StoreAnalysisWithMissingInformation /\ (\A i \in 1..Len(tri'.missing) : tri'.missing[i] \in QueryMissingLists)
    \/ CallStoreProjectPlan /\ MissingAligned /\ UNCHANGED <<wf, ses, job, wr, sq, pipe, sync, rx>>
    \/ CallStoreTechnicalProposal /\ MissingAligned /\ UNCHANGED <<wf, ses, job, wr, sq, pipe, sync, rx>>
    \/ CallCheckWorkflowStatus /\ UNCHANGED aux
    \/ CallGetLatestMemory /\ UNCHANGED aux
    \/ CallGetAllMemories /\ UNCHANGED aux
    \/ CallSearchMemories /\ UNCHANGED aux
    \/ generate_proposal_summary /\ UNCHANGED aux
    \/ generate_project_summary /\ UNCHANGED aux
    \/ identify_missing_information
    \/ update_project_timeline /\ MissingAligned /\ UNCHANGED <<wf, ses, job, wr, sq, pipe, sync, rx>>

SpecQueries == Init /\ [][NextQueries]_vars

\* The extraction applied to each text.
InitExtract ==
    /\ backend = "MockMemory"
    /\ memories = <<>>
    /\ counter = 0
    /\ heap = <<>>
    /\ apiStores = 0
    /\ mentions = 0
    /\ issued = <<>>
    /\ last = [op |-> "init", out |-> "ok", detail |-> "none", ids |-> <<>>, preLen |-> 0, entries |-> <<>>, arg |-> NoId, used |-> NoId]
    /\ wf = WorkflowIdle
    /\ tri = NoTriage
    /\ ses = NoSessions
    /\ job = NoJob
    /\ wr = NoWriters
    /\ sq = NoSearch
    /\ pipe = NoPipeline
    /\ sync = NoSync
    /\ rx \in {[NoExtraction EXCEPT !.text = t] : t \in Texts}

NextExtract == extract_requirements_from_text

SpecExtract == InitExtract /\ [][NextExtract]_vars

====
